---------------------------- MODULE Spec2Model ----------------------------
(***************************************************************************)
(* fuzzcheck_generators: the serde_json::Value mutator                     *)
(* (fuzzcheck_serde_json_generator) and the JSON string grammar            *)
(* (fuzzcheck_json_string_generator).                                      *)
(*                                                                         *)
(* Text is a sequence of one-character strings.  An InternalJsonValue and  *)
(* a serde_json::Value are records tagged by t; an Option is a record      *)
(* tagged by some.  A serde_json Map is kept as BTreeMap keeps it: a       *)
(* sequence of <<key, value>> pairs, strictly ascending by key.            *)
(***************************************************************************)
EXTENDS Integers, Sequences, FiniteSets, TLC

VARIABLES
    internal,   \* tree path: an InternalJsonValue, an Option of one, or Absent
    value,      \* tree path: a serde_json::Value, or Absent
    again,      \* tree path: the result of mapping back what was mapped
    cplx,       \* tree path: calculate_output_cplx of the current Value
    text,       \* tree path: Value::to_string of the mapped Value
    parsed,     \* tree path: Value::from_str of text
    phase,      \* tree path: which step of the pipeline was taken last
    stack,      \* grammar path: grammar nodes still to derive, leftmost first
    out,        \* grammar path: the text rendered so far
    budget,     \* grammar path: the budget left
    start,      \* grammar path: the budget generation started with
    gpc,        \* grammar path: "gen" while deriving, "done" after, "checked" once parsed
    accepted,   \* grammar path: whether the JSON parser accepted out
    cand,       \* number path: a candidate number text
    matched     \* number path: "yes" or "no" once number() was tried on cand

vars == <<internal, value, again, cplx, text, parsed, phase,
          stack, out, budget, start, gpc, accepted, cand, matched>>

treeVars == <<internal, value, again, cplx, text, parsed, phase>>
genVars == <<stack, out, budget, start, gpc, accepted>>
numVars == <<cand, matched>>

-----------------------------------------------------------------------------
(* Bounds of the model *)

\* Largest tree (nodes plus characters of text) the tree path builds.
MaxSize == 4

\* Stand-in for the 64 bits of u64: TLC's integers are 32 bits wide.
U64Bits == 4

\* Largest budget generation starts with.
MaxBudget == 2

\* Largest budget generation starts with where its termination is checked.
MaxFairBudget == 1

\* Longest run of arbitrary digits in a candidate number text.
MaxRun == 2

-----------------------------------------------------------------------------
(* Characters and text *)

Quote == "\""
Backslash == "\\"

\* The characters the tree path draws text from: an ordinary ASCII letter,
\* the two characters remove_special_characters deletes, and a letter that
\* takes two bytes in UTF-8.
TreeChars == {"a", Quote, Backslash, "é"}

DigitChars == <<"0", "1", "2", "3", "4", "5", "6", "7", "8", "9">>

\* The printable ASCII characters, U+0020 to U+007E, in order (the grave
\* accent, which a TLA+ string cannot hold, by name).
Ascii ==
    <<" ", "!", "\"", "#", "$", "%", "&", "'", "(", ")", "*", "+", ",", "-", ".", "/",
      "0", "1", "2", "3", "4", "5", "6", "7", "8", "9", ":", ";", "<", "=", ">", "?",
      "@", "A", "B", "C", "D", "E", "F", "G", "H", "I", "J", "K", "L", "M", "N", "O",
      "P", "Q", "R", "S", "T", "U", "V", "W", "X", "Y", "Z", "[", "\\", "]", "^", "_",
      "GRAVE", "a", "b", "c", "d", "e", "f", "g", "h", "i", "j", "k", "l", "m", "n", "o",
      "p", "q", "r", "s", "t", "u", "v", "w", "x", "y", "z", "{", "|", "}", "~">>

\* Unicode scalar value of a character: of the printable ASCII ones and of
\* U+00E9.
CodeTable ==
    [c \in {Ascii[i] : i \in DOMAIN Ascii} \cup {"é"} |->
        IF c = "é" THEN 233 ELSE 31 + (CHOOSE i \in DOMAIN Ascii : Ascii[i] = c)]

CharCode(c) == CodeTable[c]

\* char::len_utf8
Utf8Len(c) ==
    IF CharCode(c) < 128 THEN 1 ELSE IF CharCode(c) < 2048 THEN 2 ELSE 3

\* String::len: the length in bytes.
RECURSIVE str_len(_)
str_len(s) == IF s = <<>> THEN 0 ELSE Utf8Len(Head(s)) + str_len(Tail(s))

\* Ord for String: lexicographic by bytes, which for UTF-8 is by scalar value.
RECURSIVE StrLess(_, _)
StrLess(a, b) ==
    IF b = <<>> THEN FALSE
    ELSE IF a = <<>> THEN TRUE
    ELSE IF CharCode(Head(a)) # CharCode(Head(b))
         THEN CharCode(Head(a)) < CharCode(Head(b))
    ELSE StrLess(Tail(a), Tail(b))

InsertAt(s, i, x) == SubSeq(s, 1, i - 1) \o <<x>> \o SubSeq(s, i, Len(s))

-----------------------------------------------------------------------------
(* Values *)

Absent == [t |-> "Absent"]
None == [some |-> FALSE]
Some(x) == [some |-> TRUE, v |-> x]

U64Max == 2 ^ U64Bits - 1

\* serde_json::Number: PosInt(u64), NegInt(i64, always negative), Float(f64).
\* A float is kept as the decimal text serde_json prints for it.
PosInt(n) == [k |-> "PosInt", v |-> n]
NegInt(n) == [k |-> "NegInt", v |-> n]
Float(txt) == [k |-> "Float", text |-> txt]

Null == [t |-> "Null"]
Bool(b) == [t |-> "Bool", inner |-> b]
Number(n) == [t |-> "Number", inner |-> n]
String(s) == [t |-> "String", inner |-> s]
Array(a) == [t |-> "Array", inner |-> a]
Object(o) == [t |-> "Object", inner |-> o]

\* Map::insert on the BTreeMap: replaces the value of an equal key, else
\* puts the entry at its place in key order.
RECURSIVE MapInsert(_, _, _)
MapInsert(m, key, val) ==
    IF m = <<>> THEN << <<key, val>> >>
    ELSE IF Head(m)[1] = key THEN << <<key, val>> >> \o Tail(m)
    ELSE IF StrLess(key, Head(m)[1]) THEN << <<key, val>> >> \o m
    ELSE <<Head(m)>> \o MapInsert(Tail(m), key, val)

\* Iterator::collect into a Map: the entries inserted in order.
RECURSIVE CollectMap(_, _)
CollectMap(m, entries) ==
    IF entries = <<>> THEN m
    ELSE CollectMap(MapInsert(m, Head(entries)[1], Head(entries)[2]), Tail(entries))

MapKeys(m) == {m[i][1] : i \in DOMAIN m}
MapGet(m, key) == m[CHOOSE i \in DOMAIN m : m[i][1] = key][2]

-----------------------------------------------------------------------------
(* calculate_output_cplx *)

\* Variant: a fold step that leaves out the 1.0 of each entry.
ObjectEntryCplx_NoUnit(key, valueCplx) == str_len(key) + valueCplx

\* One step of the fold over an object's entries.
ObjectEntryCplx(key, valueCplx) == 1 + str_len(key) + valueCplx

\* 1.0 + 8.0: "64-bit"
NumberCplx == 1 + 8

\* Variant: a String scored without its length.
StringCplx_Free(string) == 1

StringCplx(string) == 1 + str_len(string)

RECURSIVE calculate_output_cplx(_)
RECURSIVE FoldArrayCplx(_, _)
RECURSIVE FoldObjectCplx(_, _)

FoldArrayCplx(acc, array) ==
    IF array = <<>> THEN acc
    ELSE FoldArrayCplx(acc + calculate_output_cplx(Head(array)), Tail(array))

FoldObjectCplx(acc, object) ==
    IF object = <<>> THEN acc
    ELSE FoldObjectCplx(
            acc + ObjectEntryCplx(Head(object)[1], calculate_output_cplx(Head(object)[2])),
            Tail(object))

calculate_output_cplx(input) ==
    CASE input.t = "Null" -> 1
      [] input.t = "Bool" -> 1
      [] input.t = "Number" -> NumberCplx
      [] input.t = "String" -> StringCplx(input.inner)
      [] input.t = "Array" -> FoldArrayCplx(1, input.inner)
      [] input.t = "Object" -> FoldObjectCplx(1, input.inner)

-----------------------------------------------------------------------------
(* map_serde_json_to_internal *)

\* Variant: a conversion that clamps a negative integer to 0.
as_u64_Lenient(n) ==
    IF n.k = "PosInt" THEN Some(n.v) ELSE IF n.k = "NegInt" THEN Some(0) ELSE None

\* Number::as_u64: the value of a PosInt, nothing for a NegInt or a Float.
as_u64(n) == IF n.k = "PosInt" THEN Some(n.v) ELSE None

AllSome(opts) == \A i \in DOMAIN opts : opts[i].some

\* array.iter().all(Option::is_some)
ArrayAllSome(opts) == AllSome(opts)

\* vec.iter().all(|(_, o)| o.is_some())
ObjectAllSome(opts) == AllSome(opts)

RECURSIVE map_serde_json_to_internal(_)
map_serde_json_to_internal(v) ==
    CASE v.t = "Null" -> Some(Null)
      [] v.t = "Bool" -> Some(Bool(v.inner))
      [] v.t = "Number" ->
            LET number == as_u64(v.inner)
            IN  IF number.some THEN Some(Number(number.v)) ELSE None
      [] v.t = "String" -> Some(String(v.inner))
      [] v.t = "Array" ->
            LET array == [i \in DOMAIN v.inner |-> map_serde_json_to_internal(v.inner[i])]
            IN  IF ArrayAllSome(array)
                THEN Some(Array([i \in DOMAIN array |-> array[i].v]))
                ELSE None
      [] v.t = "Object" ->
            LET vec == [i \in DOMAIN v.inner |->
                            <<v.inner[i][1], map_serde_json_to_internal(v.inner[i][2])>>]
            IN  IF ObjectAllSome([i \in DOMAIN vec |-> vec[i][2]])
                THEN Some(Object([i \in DOMAIN vec |-> <<vec[i][1], vec[i][2].v>>]))
                ELSE None

-----------------------------------------------------------------------------
(* map_internal_jv_to_serde *)

IsSpecial(c) == c = Quote \/ c = Backslash

RECURSIVE Replace(_, _)
\* str::replace(&['"', '\\'], to): every matching character replaced by to.
Replace(string, to) ==
    IF string = <<>> THEN <<>>
    ELSE (IF IsSpecial(Head(string)) THEN to ELSE <<Head(string)>>)
         \o Replace(Tail(string), to)

\* Variant: the special characters escaped instead of removed.
RECURSIVE remove_special_characters_Escape(_)
remove_special_characters_Escape(string) ==
    IF string = <<>> THEN <<>>
    ELSE (IF IsSpecial(Head(string)) THEN <<Backslash, Head(string)>> ELSE <<Head(string)>>)
         \o remove_special_characters_Escape(Tail(string))

\* Variant: only the quote removed.
remove_special_characters_QuoteOnly(string) ==
    SelectSeq(string, LAMBDA c : c # Quote)

\* Variant: every non-ASCII character removed as well.
remove_special_characters_AsciiOnly(string) ==
    SelectSeq(string, LAMBDA c : ~IsSpecial(c) /\ CharCode(c) < 128)

remove_special_characters(string) == Replace(string, <<>>)

RECURSIVE map_internal_jv_to_serde(_)
map_internal_jv_to_serde(iv) ==
    CASE iv.t = "Null" -> Null
      [] iv.t = "Bool" -> Bool(iv.inner)
      [] iv.t = "Number" -> Number(PosInt(iv.inner))
      [] iv.t = "String" -> String(remove_special_characters(iv.inner))
      [] iv.t = "Array" ->
            Array([i \in DOMAIN iv.inner |-> map_internal_jv_to_serde(iv.inner[i])])
      [] iv.t = "Object" ->
            Object(CollectMap(<<>>,
                [i \in DOMAIN iv.inner |->
                    <<remove_special_characters(iv.inner[i][1]),
                      map_internal_jv_to_serde(iv.inner[i][2])>>]))

-----------------------------------------------------------------------------
(* Trees the tree path works on *)

\* Nodes plus characters of text: what MaxSize bounds.
RECURSIVE Size(_)
RECURSIVE SizeSum(_, _)
SizeSum(seq, keyed) ==
    IF seq = <<>> THEN 0
    ELSE (IF keyed THEN Len(Head(seq)[1]) + Size(Head(seq)[2]) ELSE Size(Head(seq)))
         + SizeSum(Tail(seq), keyed)
Size(v) ==
    CASE v.t \in {"Null", "Bool", "Number"} -> 1
      [] v.t = "String" -> 1 + Len(v.inner)
      [] v.t = "Array" -> 1 + SizeSum(v.inner, FALSE)
      [] v.t = "Object" -> 1 + SizeSum(v.inner, TRUE)

\* The smallest InternalJsonValue of each variant.
InternalSeeds ==
    {Null, Bool(TRUE), Bool(FALSE), Number(0), Number(U64Max),
     String(<<>>), Array(<<>>), Object(<<>>)}

\* The decimal digits of a natural number.
RECURSIVE NatToDigits(_)
NatToDigits(n) ==
    IF n < 10 THEN <<DigitChars[n + 1]>>
    ELSE NatToDigits(n \div 10) \o <<DigitChars[(n % 10) + 1]>>

\* Floats a Value may hold: a fraction, an integer-valued float, a negative
\* one, and the first integer past u64.
FloatSamples ==
    {<<"0", ".", "5">>, <<"1", ".", "0">>, <<"-", "0", ".", "5">>,
     NatToDigits(U64Max + 1) \o <<".", "0">>}

\* The smallest serde_json::Value of each variant and number kind.
ValueSeeds ==
    {Null, Bool(TRUE), Bool(FALSE), Number(PosInt(1)), Number(NegInt(-1)),
     String(<<>>), Array(<<>>), Object(<<>>)}
    \cup {Number(Float(f)) : f \in FloatSamples}

\* The InternalJsonValues one insertion away from iv, by what is inserted:
\* an element into a Vec (VecMutator), an entry into an object's Vec, a
\* character into a String or into a key (StringMutator).
RECURSIVE InternalInsertions(_, _)
InternalInsertions(iv, kind) ==
    CASE iv.t \in {"Null", "Bool", "Number"} -> {}
      [] iv.t = "String" ->
            IF kind = "char"
            THEN {String(InsertAt(iv.inner, i, c)) : i \in 1..(Len(iv.inner) + 1), c \in TreeChars}
            ELSE {}
      [] iv.t = "Array" ->
            (IF kind = "element"
             THEN {Array(InsertAt(iv.inner, i, e)) : i \in 1..(Len(iv.inner) + 1), e \in InternalSeeds}
             ELSE {})
            \cup UNION {{Array([iv.inner EXCEPT ![i] = w]) : w \in InternalInsertions(iv.inner[i], kind)}
                            : i \in DOMAIN iv.inner}
      [] iv.t = "Object" ->
            (IF kind = "entry"
             THEN {Object(InsertAt(iv.inner, i, <<(<<>>), e>>)) : i \in 1..(Len(iv.inner) + 1), e \in InternalSeeds}
             ELSE {})
            \cup (IF kind = "keychar"
                  THEN UNION {{Object([iv.inner EXCEPT ![i] = <<InsertAt(iv.inner[i][1], j, c), iv.inner[i][2]>>])
                                    : j \in 1..(Len(iv.inner[i][1]) + 1), c \in TreeChars}
                                : i \in DOMAIN iv.inner}
                  ELSE {})
            \cup UNION {{Object([iv.inner EXCEPT ![i] = <<iv.inner[i][1], w>>])
                                : w \in InternalInsertions(iv.inner[i][2], kind)}
                            : i \in DOMAIN iv.inner}

RemoveAt(s, i) == SubSeq(s, 1, i - 1) \o SubSeq(s, i + 1, Len(s))

\* The Values one insertion away from v.  An object is a Map: an entry is
\* additional only under a key the Map does not hold, and a key that grows
\* by a character must not become another entry's key.
RECURSIVE ValueInsertions(_, _)
ValueInsertions(v, kind) ==
    CASE v.t \in {"Null", "Bool", "Number"} -> {}
      [] v.t = "String" ->
            IF kind = "char"
            THEN {String(InsertAt(v.inner, i, c)) : i \in 1..(Len(v.inner) + 1), c \in TreeChars}
            ELSE {}
      [] v.t = "Array" ->
            (IF kind = "element"
             THEN {Array(InsertAt(v.inner, i, e)) : i \in 1..(Len(v.inner) + 1), e \in ValueSeeds}
             ELSE {})
            \cup UNION {{Array([v.inner EXCEPT ![i] = w]) : w \in ValueInsertions(v.inner[i], kind)}
                            : i \in DOMAIN v.inner}
      [] v.t = "Object" ->
            (IF kind = "entry"
             THEN {Object(MapInsert(v.inner, key, e)) :
                        key \in ({<<>>} \cup {<<c>> : c \in TreeChars}) \ MapKeys(v.inner),
                        e \in ValueSeeds}
             ELSE {})
            \cup (IF kind = "keychar"
                  THEN UNION {{Object(MapInsert(RemoveAt(v.inner, i), key, v.inner[i][2])) :
                                    key \in {InsertAt(v.inner[i][1], j, c) :
                                                j \in 1..(Len(v.inner[i][1]) + 1), c \in TreeChars}
                                            \ MapKeys(v.inner)}
                                : i \in DOMAIN v.inner}
                  ELSE {})
            \cup UNION {{Object([v.inner EXCEPT ![i] = <<v.inner[i][1], w>>])
                                : w \in ValueInsertions(v.inner[i][2], kind)}
                            : i \in DOMAIN v.inner}

InsertKinds == {"element", "entry", "char", "keychar"}

-----------------------------------------------------------------------------
(* serde_json's text form: Value::to_string and Value::from_str *)

RECURSIVE EscapeStr(_)
\* The writer's escapes for the characters of the model: \" and \\.
EscapeStr(s) ==
    IF s = <<>> THEN <<>>
    ELSE (IF IsSpecial(Head(s)) THEN <<Backslash, Head(s)>> ELSE <<Head(s)>>)
         \o EscapeStr(Tail(s))

WriteStr(s) == <<Quote>> \o EscapeStr(s) \o <<Quote>>

WriteNumber(n) ==
    CASE n.k = "PosInt" -> NatToDigits(n.v)
      [] n.k = "NegInt" -> <<"-">> \o NatToDigits(0 - n.v)
      [] n.k = "Float" -> n.text

RECURSIVE to_string(_)
RECURSIVE WriteElements(_)
RECURSIVE WriteMembers(_)
WriteElements(a) ==
    IF a = <<>> THEN <<>>
    ELSE to_string(Head(a))
         \o (IF Tail(a) = <<>> THEN <<>> ELSE <<",">> \o WriteElements(Tail(a)))
WriteMembers(o) ==
    IF o = <<>> THEN <<>>
    ELSE WriteStr(Head(o)[1]) \o <<":">> \o to_string(Head(o)[2])
         \o (IF Tail(o) = <<>> THEN <<>> ELSE <<",">> \o WriteMembers(Tail(o)))
\* Value::to_string: the compact writer.
to_string(v) ==
    CASE v.t = "Null" -> <<"n", "u", "l", "l">>
      [] v.t = "Bool" ->
            IF v.inner THEN <<"t", "r", "u", "e">> ELSE <<"f", "a", "l", "s", "e">>
      [] v.t = "Number" -> WriteNumber(v.inner)
      [] v.t = "String" -> WriteStr(v.inner)
      [] v.t = "Array" -> <<"[">> \o WriteElements(v.inner) \o <<"]">>
      [] v.t = "Object" -> <<"{">> \o WriteMembers(v.inner) \o <<"}">>

\* A parse result: the value read and the position after it, or a failure.
Fail == [ok |-> FALSE, pos |-> 0, v |-> Absent]
Read(val, p) == [ok |-> TRUE, pos |-> p, v |-> val]

At(s, i) == IF i \in DOMAIN s THEN s[i] ELSE "EOF"
IsDigit(c) == c \in {DigitChars[k] : k \in DOMAIN DigitChars}
DigitValue(c) == (CHOOSE k \in DOMAIN DigitChars : DigitChars[k] = c) - 1

RECURSIVE SkipWs(_, _)
SkipWs(s, i) == IF At(s, i) \in {" ", "\t", "\n", "\r"} THEN SkipWs(s, i + 1) ELSE i

RECURSIVE SkipDigits(_, _)
SkipDigits(s, i) == IF IsDigit(At(s, i)) THEN SkipDigits(s, i + 1) ELSE i

HasPrefix(s, i, word) ==
    /\ i + Len(word) - 1 <= Len(s)
    /\ SubSeq(s, i, i + Len(word) - 1) = word

\* The value of a run of digits, or limit + 1 once it passes limit.
RECURSIVE DigitsValue(_, _, _)
DigitsValue(ds, acc, limit) ==
    IF ds = <<>> THEN acc
    ELSE IF acc * 10 + DigitValue(Head(ds)) > limit THEN limit + 1
    ELSE DigitsValue(Tail(ds), acc * 10 + DigitValue(Head(ds)), limit)

\* The Number of a lexeme: an integer that fits is a PosInt or a NegInt,
\* anything else is a Float, kept as its text.
NumberOf(lexeme, negative, integral) ==
    LET digits == IF negative THEN Tail(lexeme) ELSE lexeme
        n == DigitsValue(digits, 0, U64Max)
    IN  IF ~integral THEN Float(lexeme)
        ELSE IF ~negative
             THEN (IF n <= U64Max THEN PosInt(n) ELSE Float(lexeme \o <<".", "0">>))
        ELSE IF n = 0 THEN Float(<<"-", "0", ".", "0">>)
        ELSE IF n <= (U64Max + 1) \div 2 THEN NegInt(0 - n)
        ELSE Float(lexeme \o <<".", "0">>)

\* number = [ "-" ] int [ frac ] [ exp ], int = "0" / ( digit1-9 *DIGIT )
ParseNumber(s, i) ==
    LET negative == At(s, i) = "-"
        i1 == IF negative THEN i + 1 ELSE i
        i2 == IF At(s, i1) = "0" THEN i1 + 1 ELSE SkipDigits(s, i1)
        hasFrac == At(s, i2) = "."
        i3 == IF hasFrac THEN SkipDigits(s, i2 + 1) ELSE i2
        hasExp == At(s, i3) \in {"e", "E"}
        i4 == IF hasExp /\ At(s, i3 + 1) \in {"+", "-"} THEN i3 + 2 ELSE i3 + 1
        i5 == IF hasExp THEN SkipDigits(s, i4) ELSE i3
    IN  IF i2 = i1 THEN Fail
        ELSE IF hasFrac /\ i3 = i2 + 1 THEN Fail
        ELSE IF hasExp /\ i5 = i4 THEN Fail
        ELSE Read(Number(NumberOf(SubSeq(s, i, i5 - 1), negative, ~hasFrac /\ ~hasExp)), i5)

\* A string from its opening quote on.  The escapes read are \" \\ \/ \n
\* \r \t and \f; no text of the model holds a \b or a \u escape, and they
\* are not read.
RECURSIVE ParseChars(_, _, _)
ParseChars(s, i, acc) ==
    LET c == At(s, i)
        e == At(s, i + 1)
    IN  IF c = "EOF" \/ c \in {"\n", "\r", "\t", "\f"} THEN Fail
        ELSE IF c = Quote THEN Read(acc, i + 1)
        ELSE IF c # Backslash THEN ParseChars(s, i + 1, Append(acc, c))
        ELSE IF e \in {Quote, Backslash, "/"} THEN ParseChars(s, i + 2, Append(acc, e))
        ELSE IF e = "n" THEN ParseChars(s, i + 2, Append(acc, "\n"))
        ELSE IF e = "r" THEN ParseChars(s, i + 2, Append(acc, "\r"))
        ELSE IF e = "t" THEN ParseChars(s, i + 2, Append(acc, "\t"))
        ELSE IF e = "f" THEN ParseChars(s, i + 2, Append(acc, "\f"))
        ELSE Fail

ParseStr(s, i) == IF At(s, i) = Quote THEN ParseChars(s, i + 1, <<>>) ELSE Fail

RECURSIVE ParseValue(_, _)
RECURSIVE ParseElements(_, _, _)
RECURSIVE ParseMembers(_, _, _)

\* The elements of an array after "[" or ",", up to and over its "]".
ParseElements(s, i, acc) ==
    LET e == ParseValue(s, SkipWs(s, i))
        j == SkipWs(s, e.pos)
    IN  IF ~e.ok THEN Fail
        ELSE IF At(s, j) = "," THEN ParseElements(s, j + 1, Append(acc, e.v))
        ELSE IF At(s, j) = "]" THEN Read(Array(Append(acc, e.v)), j + 1)
        ELSE Fail

\* The members of an object after "{" or ",", up to and over its "}".
ParseMembers(s, i, acc) ==
    LET key == ParseStr(s, SkipWs(s, i))
        c == SkipWs(s, key.pos)
        e == ParseValue(s, SkipWs(s, c + 1))
        j == SkipWs(s, e.pos)
    IN  IF ~key.ok THEN Fail
        ELSE IF At(s, c) # ":" THEN Fail
        ELSE IF ~e.ok THEN Fail
        ELSE IF At(s, j) = "," THEN ParseMembers(s, j + 1, MapInsert(acc, key.v, e.v))
        ELSE IF At(s, j) = "}" THEN Read(Object(MapInsert(acc, key.v, e.v)), j + 1)
        ELSE Fail

ParseValue(s, i) ==
    LET c == At(s, i)
        str == ParseStr(s, i)
    IN  CASE c = "n" ->
                IF HasPrefix(s, i, <<"n", "u", "l", "l">>) THEN Read(Null, i + 4) ELSE Fail
          [] c = "t" ->
                IF HasPrefix(s, i, <<"t", "r", "u", "e">>) THEN Read(Bool(TRUE), i + 4) ELSE Fail
          [] c = "f" ->
                IF HasPrefix(s, i, <<"f", "a", "l", "s", "e">>) THEN Read(Bool(FALSE), i + 5) ELSE Fail
          [] c = "-" \/ IsDigit(c) -> ParseNumber(s, i)
          [] c = Quote -> IF str.ok THEN Read(String(str.v), str.pos) ELSE Fail
          [] c = "[" ->
                IF At(s, SkipWs(s, i + 1)) = "]"
                THEN Read(Array(<<>>), SkipWs(s, i + 1) + 1)
                ELSE ParseElements(s, i + 1, <<>>)
          [] c = "{" ->
                IF At(s, SkipWs(s, i + 1)) = "}"
                THEN Read(Object(<<>>), SkipWs(s, i + 1) + 1)
                ELSE ParseMembers(s, i + 1, <<>>)
          [] OTHER -> Fail

\* Value::from_str: one value, white space around it, and nothing after.
from_str(s) ==
    LET r == ParseValue(s, SkipWs(s, 1))
    IN  IF r.ok /\ SkipWs(s, r.pos) = Len(s) + 1 THEN Some(r.v) ELSE None

-----------------------------------------------------------------------------
(* The tree path, from an InternalJsonValue: the mutator's value is mapped *)
(* to a Value and scored, and the Value is mapped back.                    *)

GenIdle ==
    /\ stack = <<>> /\ out = <<>> /\ budget = 0 /\ start = 0
    /\ gpc = "idle" /\ accepted = FALSE
NumIdle == cand = <<>> /\ matched = "idle"
TreeIdle ==
    /\ internal = Absent /\ value = Absent /\ again = Absent /\ cplx = 0
    /\ text = <<>> /\ parsed = Absent /\ phase = "idle"

InitInternal ==
    /\ internal \in InternalSeeds
    /\ value = Absent /\ again = Absent /\ cplx = 0
    /\ text = <<>> /\ parsed = Absent
    /\ phase = "input"
    /\ GenIdle /\ NumIdle

\* InternalJsonValueMutator grows its value by one insertion.
MutateInsert(kind) ==
    /\ phase = "input"
    /\ \E w \in InternalInsertions(internal, kind) :
            /\ Size(w) <= MaxSize
            /\ internal' = w
    /\ UNCHANGED <<value, again, cplx, text, parsed, phase, genVars, numVars>>

\* MapMutator maps the mutator's value to the Value it hands out, and scores it.
MapToSerde ==
    /\ phase = "input"
    /\ value' = map_internal_jv_to_serde(internal)
    /\ cplx' = calculate_output_cplx(value')
    /\ phase' = "mapped"
    /\ UNCHANGED <<internal, again, text, parsed, genVars, numVars>>

\* MapMutator parses the Value it handed out.
ParseMapped ==
    /\ phase = "mapped"
    /\ again' = map_serde_json_to_internal(value)
    /\ phase' = "reparsed"
    /\ UNCHANGED <<internal, value, cplx, text, parsed, genVars, numVars>>

\* check_validity's closure: the Value is written and read back.
CheckValidity ==
    /\ phase = "reparsed"
    /\ text' = to_string(value)
    /\ parsed' = from_str(text')
    /\ phase' = "checked"
    /\ UNCHANGED <<internal, value, again, cplx, genVars, numVars>>

NextInternal ==
    \/ \E kind \in InsertKinds : MutateInsert(kind)
    \/ MapToSerde
    \/ ParseMapped
    \/ CheckValidity

SpecInternal == InitInternal /\ [][NextInternal]_vars

-----------------------------------------------------------------------------
(* The tree path, from a Value: a Value is scored, grown, mapped to an     *)
(* InternalJsonValue and mapped back.                                      *)

InitValue ==
    /\ value \in ValueSeeds
    /\ cplx = calculate_output_cplx(value)
    /\ internal = Absent /\ again = Absent
    /\ text = <<>> /\ parsed = Absent
    /\ phase = "input"
    /\ GenIdle /\ NumIdle

\* A Value grown by one insertion is scored again.
ValueInsert(kind) ==
    /\ phase = "input"
    /\ \E w \in ValueInsertions(value, kind) :
            /\ Size(w) <= MaxSize
            /\ value' = w
    /\ cplx' = calculate_output_cplx(value')
    /\ UNCHANGED <<internal, again, text, parsed, phase, genVars, numVars>>

\* MapMutator's parse closure.
Forward ==
    /\ phase = "input"
    /\ internal' = map_serde_json_to_internal(value)
    /\ phase' = "forward"
    /\ UNCHANGED <<value, again, cplx, text, parsed, genVars, numVars>>

\* MapMutator's map closure, on what the parse closure gave.
Backward ==
    /\ phase = "forward"
    /\ internal.some
    /\ again' = map_internal_jv_to_serde(internal.v)
    /\ phase' = "back"
    /\ UNCHANGED <<internal, value, cplx, text, parsed, genVars, numVars>>

NextValue ==
    \/ \E kind \in InsertKinds : ValueInsert(kind)
    \/ Forward
    \/ Backward

SpecValue == InitValue /\ [][NextValue]_vars

-----------------------------------------------------------------------------
(* Grammars: fuzzcheck::mutators::grammar's constructors *)

literal(ch) == [g |-> "literal", c |-> ch]
\* A character class of a regex: its ranges, each <<first, last>>.
class(rs) == [g |-> "class", ranges |-> rs]
concatenation(gs) == [g |-> "concatenation", kids |-> gs]
alternation(gs) == [g |-> "alternation", kids |-> gs]
\* repetition(g, min..=max)
repetition(gr, lo, hi) ==
    [g |-> "repetition", kid |-> gr, min |-> lo, max |-> hi, unbounded |-> FALSE]
\* repetition(g, min..=usize::MAX)
repetition_from(gr, lo) ==
    [g |-> "repetition", kid |-> gr, min |-> lo, max |-> lo, unbounded |-> TRUE]
\* recurse(json): the rule recursive() is building.
recurse == [g |-> "recurse"]
\* regex(word) for a word without operators: its characters in a row.
regex_word(w) == concatenation([i \in DOMAIN w |-> literal(w[i])])

\* The characters of a class.
ClassChars(rs) ==
    UNION {{Ascii[k - 31] : k \in CharCode(rs[i][1])..CharCode(rs[i][2])} : i \in DOMAIN rs}

-----------------------------------------------------------------------------
(* json_grammar_mutator's grammar *)

quote == literal(Quote)

blank == repetition(literal(" "), 0, 0)

\* regex("[a-zA-Z0-9_]*")
valid_possibly_empty_string ==
    repetition_from(class(<< <<"a", "z">>, <<"A", "Z">>, <<"0", "9">>, <<"_", "_">> >>), 0)

sign == alternation(<<blank, literal("+"), literal("-")>>)

\* regex("[0-9]")
digit == class(<< <<"0", "9">> >>)

\* regex("[1-9]")
digit1to9 == class(<< <<"1", "9">> >>)

\* Variant: a first digit from [0-9].
digits_AnyLead == concatenation(<<digit, repetition(digit, 0, 32)>>)

\* Variant: a repetition of 0..=33.
digits_OneMore == concatenation(<<digit1to9, repetition(digit, 0, 33)>>)

digits == concatenation(<<digit1to9, repetition(digit, 0, 32)>>)

fraction == alternation(<<blank, concatenation(<<literal("."), digits>>)>>)

exponent ==
    alternation(<<
        blank,
        concatenation(<<literal("E"), sign, digit1to9, repetition(digit, 0, 1)>>),
        concatenation(<<literal("e"), sign, digit1to9, repetition(digit, 0, 1)>>)>>)

number == concatenation(<<digits, fraction, exponent>>)

\* Variant: every element followed by a comma.
json_array_TrailingComma ==
    concatenation(<<
        literal("["),
        repetition_from(concatenation(<<recurse, literal(",")>>), 1),
        literal("]")>>)

json_array ==
    concatenation(<<
        literal("["),
        repetition_from(concatenation(<<recurse, literal(",")>>), 0),
        recurse,
        literal("]")>>)

json_object ==
    concatenation(<<
        literal("{"),
        repetition_from(
            concatenation(<<quote, valid_possibly_empty_string, quote,
                            literal(":"), recurse, literal(",")>>), 0),
        concatenation(<<quote, valid_possibly_empty_string, quote, literal(":"), recurse>>),
        literal("}")>>)

\* Variant: a rule whose every alternative recurses.
json_grammar_NoBase == alternation(<<json_array, json_object>>)

\* recursive(|json| alternation([...]))
json_grammar ==
    alternation(<<
        regex_word(<<"n", "u", "l", "l">>),
        alternation(<<regex_word(<<"t", "r", "u", "e">>),
                      regex_word(<<"f", "a", "l", "s", "e">>)>>),
        number,
        concatenation(<<quote, valid_possibly_empty_string, quote>>),
        json_array,
        json_object>>)

-----------------------------------------------------------------------------
(* Generation: grammar_based_ast_mutator(grammar).with_string()            *)
(*                                                                         *)
(* A leftmost derivation.  The budget is what is left to spend: a          *)
(* repetition spends one for each copy over its minimum, recurse spends    *)
(* one, and once it is spent an alternation takes an alternative that does *)
(* not recurse.                                                            *)

\* Whether deriving a grammar node can reach recurse.
RECURSIVE HasRecurse(_)
HasRecurse(gr) ==
    CASE gr.g = "recurse" -> TRUE
      [] gr.g \in {"literal", "class"} -> FALSE
      [] gr.g = "repetition" -> HasRecurse(gr.kid)
      [] gr.g \in {"concatenation", "alternation"} ->
            \E i \in DOMAIN gr.kids : HasRecurse(gr.kids[i])

\* The characters generation draws a class's character from.
GenChars == {"0", "1", "a", "_"}

Copies(gr, n) == [i \in 1..n |-> gr]

Min(a, b) == IF a < b THEN a ELSE b

InitGen ==
    /\ start \in 0..MaxBudget
    /\ budget = start
    /\ stack = <<json_grammar>>
    /\ out = <<>>
    /\ gpc = "gen"
    /\ accepted = FALSE
    /\ TreeIdle /\ NumIdle

GenLiteral ==
    /\ gpc = "gen" /\ stack # <<>> /\ Head(stack).g = "literal"
    /\ out' = Append(out, Head(stack).c)
    /\ stack' = Tail(stack)
    /\ UNCHANGED <<budget, start, gpc, accepted, treeVars, numVars>>

GenClass ==
    /\ gpc = "gen" /\ stack # <<>> /\ Head(stack).g = "class"
    /\ \E c \in ClassChars(Head(stack).ranges) \cap GenChars :
            out' = Append(out, c)
    /\ stack' = Tail(stack)
    /\ UNCHANGED <<budget, start, gpc, accepted, treeVars, numVars>>

GenConcatenation ==
    /\ gpc = "gen" /\ stack # <<>> /\ Head(stack).g = "concatenation"
    /\ stack' = Head(stack).kids \o Tail(stack)
    /\ UNCHANGED <<out, budget, start, gpc, accepted, treeVars, numVars>>

GenAlternation ==
    /\ gpc = "gen" /\ stack # <<>> /\ Head(stack).g = "alternation"
    /\ \E i \in DOMAIN Head(stack).kids :
            /\ budget > 0 \/ ~HasRecurse(Head(stack).kids[i])
            /\ stack' = <<Head(stack).kids[i]>> \o Tail(stack)
    /\ UNCHANGED <<out, budget, start, gpc, accepted, treeVars, numVars>>

GenRepetition ==
    /\ gpc = "gen" /\ stack # <<>> /\ Head(stack).g = "repetition"
    /\ LET top == Head(stack)
           most == IF top.unbounded THEN top.min + budget
                   ELSE Min(top.max, top.min + budget)
       IN  \E n \in top.min..most :
                /\ stack' = Copies(top.kid, n) \o Tail(stack)
                /\ budget' = budget - (n - top.min)
    /\ UNCHANGED <<out, start, gpc, accepted, treeVars, numVars>>

GenRecurse ==
    /\ gpc = "gen" /\ stack # <<>> /\ Head(stack).g = "recurse"
    /\ stack' = <<json_grammar>> \o Tail(stack)
    /\ budget' = IF budget > 0 THEN budget - 1 ELSE 0
    /\ UNCHANGED <<out, start, gpc, accepted, treeVars, numVars>>

\* The derivation is complete: out is the string handed to the test.
GenDone ==
    /\ gpc = "gen" /\ stack = <<>>
    /\ gpc' = "done"
    /\ UNCHANGED <<stack, out, budget, start, accepted, treeVars, numVars>>

\* test_mutator's closure: Value::from_str(string).unwrap()
TestMutator ==
    /\ gpc = "done"
    /\ accepted' = from_str(out).some
    /\ gpc' = "checked"
    /\ UNCHANGED <<stack, out, budget, start, treeVars, numVars>>

\* The steps of generation proper, up to the complete derivation.
Generate ==
    \/ GenLiteral
    \/ GenClass
    \/ GenConcatenation
    \/ GenAlternation
    \/ GenRepetition
    \/ GenRecurse
    \/ GenDone

NextGen ==
    \/ GenLiteral
    \/ GenClass
    \/ GenConcatenation
    \/ GenAlternation
    \/ GenRepetition
    \/ GenRecurse
    \/ GenDone
    \/ TestMutator

SpecGen == InitGen /\ [][NextGen]_vars

InitGenFair == InitGen /\ start <= MaxFairBudget

\* Generation is a loop that runs until the derivation is complete.
SpecGenFair == InitGenFair /\ [][NextGen]_vars /\ WF_vars(Generate)

-----------------------------------------------------------------------------
(* The language of a grammar *)

RECURSIVE Ends(_, _, _)
RECURSIVE EndsOfAll(_, _, _)
RECURSIVE EndsOfCopies(_, _, _, _)

\* Where the kids, one after the other, can end when the first starts at a
\* position of froms.
EndsOfAll(kids, s, froms) ==
    IF kids = <<>> \/ froms = {} THEN froms
    ELSE EndsOfAll(Tail(kids), s, UNION {Ends(Head(kids), s, p) : p \in froms})

\* Where min..max copies of a repetition's kid can end, froms being where k
\* copies end.
EndsOfCopies(rep, s, froms, k) ==
    (IF k >= rep.min THEN froms ELSE {})
    \cup (IF froms = {} \/ (~rep.unbounded /\ k >= rep.max) \/ k > Len(s)
          THEN {}
          ELSE EndsOfCopies(rep, s, UNION {Ends(rep.kid, s, p) : p \in froms}, k + 1))

\* The positions p such that gr derives s from position from up to p - 1.
Ends(gr, s, from) ==
    CASE gr.g = "literal" -> IF At(s, from) = gr.c THEN {from + 1} ELSE {}
      [] gr.g = "class" -> IF At(s, from) \in ClassChars(gr.ranges) THEN {from + 1} ELSE {}
      [] gr.g = "concatenation" -> EndsOfAll(gr.kids, s, {from})
      [] gr.g = "alternation" -> UNION {Ends(gr.kids[i], s, from) : i \in DOMAIN gr.kids}
      [] gr.g = "repetition" -> EndsOfCopies(gr, s, {from}, 0)
      [] gr.g = "recurse" -> Ends(json_grammar, s, from)

\* Whether s is a string of the grammar.
Derives(gr, s) == (Len(s) + 1) \in Ends(gr, s, 1)

-----------------------------------------------------------------------------
(* The number path: number() is tried on candidate texts *)

Runs(chars, n) == UNION {[1..k -> chars] : k \in 0..n}

\* The most digits digits() lets follow the first.
MoreDigitsMax == digits.kids[2].max

\* Runs of digits about as long as digits() allows: one short of the longest,
\* the longest, and one more.
LongRuns ==
    {<<"1">> \o [i \in 1..k |-> "0"] : k \in (MoreDigitsMax - 1)..(MoreDigitsMax + 1)}

DigitRuns == Runs({"0", "1"}, MaxRun) \cup LongRuns

\* [ "-" ] run [ "." run ] [ ("e" | "E") [ "+" | "-" ] run ]
NumberCandidates ==
    {m \o i \o f \o e :
        m \in {<<>>, <<"-">>},
        i \in DigitRuns,
        f \in {<<>>} \cup {<<".">> \o r : r \in DigitRuns},
        e \in {<<>>} \cup {<<x>> \o sg \o r :
                                x \in {"e", "E"},
                                sg \in {<<>>, <<"+">>, <<"-">>},
                                r \in Runs({"0", "1"}, MaxRun + 1)}}

InitNumber ==
    /\ cand \in NumberCandidates
    /\ matched = "none"
    /\ TreeIdle /\ GenIdle

MatchNumber ==
    /\ matched = "none"
    /\ matched' = IF Derives(number, cand) THEN "yes" ELSE "no"
    /\ UNCHANGED <<cand, treeVars, genVars>>

NextNumber == MatchNumber

SpecNumber == InitNumber /\ [][NextNumber]_vars

-----------------------------------------------------------------------------
(* Generation with nothing to spend *)

\* All ways to write one string of each set of strs after the other.
RECURSIVE Products(_)
Products(strs) ==
    IF strs = <<>> THEN {<<>>}
    ELSE {a \o b : a \in Head(strs), b \in Products(Tail(strs))}

\* The strings a grammar node derives with every repetition at its minimum
\* and no alternative that recurses.
RECURSIVE MinimalStrings(_)
MinimalStrings(gr) ==
    CASE gr.g = "literal" -> {<<gr.c>>}
      [] gr.g = "class" -> {<<c>> : c \in ClassChars(gr.ranges)}
      [] gr.g = "concatenation" ->
            Products([i \in DOMAIN gr.kids |-> MinimalStrings(gr.kids[i])])
      [] gr.g = "alternation" ->
            UNION {MinimalStrings(gr.kids[i]) :
                        i \in {j \in DOMAIN gr.kids : ~HasRecurse(gr.kids[j])}}
      [] gr.g = "repetition" -> Products([i \in 1..gr.min |-> MinimalStrings(gr.kid)])
      [] gr.g = "recurse" -> {}

MinimalDerivations == MinimalStrings(json_grammar)

-----------------------------------------------------------------------------
(* Claims *)

Specials == {Quote, Backslash}
Deleted(s) == SelectSeq(s, LAMBDA c : c \notin Specials)
HasSpecial(s) == \E i \in DOMAIN s : s[i] \in Specials

\* Whether some String payload or object key of a tree holds a quote or a
\* backslash.
RECURSIVE AnySpecial(_)
AnySpecial(v) ==
    CASE v.t = "String" -> HasSpecial(v.inner)
      [] v.t = "Array" -> \E i \in DOMAIN v.inner : AnySpecial(v.inner[i])
      [] v.t = "Object" ->
            \E i \in DOMAIN v.inner : HasSpecial(v.inner[i][1]) \/ AnySpecial(v.inner[i][2])
      [] OTHER -> FALSE

\* The Value nv holds, node for node, what the InternalJsonValue iv holds
\* with quotes and backslashes deleted; of the entries whose keys become
\* equal, the last.
RECURSIVE Sanitized(_, _)
Sanitized(iv, nv) ==
    /\ nv.t = iv.t
    /\ CASE iv.t = "Null" -> TRUE
         [] iv.t = "Bool" -> nv.inner = iv.inner
         [] iv.t = "Number" -> nv.inner = PosInt(iv.inner)
         [] iv.t = "String" -> nv.inner = Deleted(iv.inner)
         [] iv.t = "Array" ->
                /\ Len(nv.inner) = Len(iv.inner)
                /\ \A i \in DOMAIN iv.inner : Sanitized(iv.inner[i], nv.inner[i])
         [] iv.t = "Object" ->
                /\ {nv.inner[j][1] : j \in DOMAIN nv.inner}
                        = {Deleted(iv.inner[i][1]) : i \in DOMAIN iv.inner}
                /\ \A j, k \in DOMAIN nv.inner : j # k => nv.inner[j][1] # nv.inner[k][1]
                /\ \A j \in DOMAIN nv.inner :
                        LET from == {i \in DOMAIN iv.inner : Deleted(iv.inner[i][1]) = nv.inner[j][1]}
                            last == CHOOSE i \in from : \A h \in from : h <= i
                        IN  Sanitized(iv.inner[last][2], nv.inner[j][2])

\* C2: the Value map_internal_jv_to_serde makes holds every String payload
\* and every object key of the InternalJsonValue with each quote and each
\* backslash deleted and the other characters in order, at every depth, so
\* none of them holds a quote or a backslash; and the Value written and read
\* back is the Value.
C2_SanitizedAndRoundTrips ==
    /\ phase \in {"mapped", "reparsed", "checked"} =>
            Sanitized(internal, value) /\ ~AnySpecial(value)
    /\ phase = "checked" => parsed = Some(value)

C2_Witness ==
    /\ phase = "checked"
    /\ internal = Array(<<Object(<< <<(<<Backslash>>), Null>> >>)>>)
    /\ value = Array(<<Object(<< <<(<<>>), Null>> >>)>>)
    /\ parsed = Some(value)

\* C3 as stated: whenever map_serde_json_to_internal gives Some for a Value,
\* mapping that back gives a Value that is written as the Value is, also
\* when its strings or keys hold quotes or backslashes.
C3_Original == phase = "back" => to_string(again) = to_string(value)

\* C3: whenever map_serde_json_to_internal gives Some for a Value none of
\* whose strings and keys holds a quote or a backslash, mapping that back
\* gives the Value again, written as the Value is.
C3_RoundTripWithoutSpecials ==
    (phase = "back" /\ ~AnySpecial(value)) =>
        (again = value /\ to_string(again) = to_string(value))

C3_Witness ==
    /\ phase = "back"
    /\ value = Object(<< <<(<<"é">>), Number(PosInt(1))>> >>)
    /\ again = value

\* C4: mapping an InternalJsonValue to a Value and back never fails, also
\* with keys that repeat or that become equal once sanitized, and what comes
\* back costs no more than what went in, by the scorer's rules.
C4_BackThenForward ==
    phase \in {"reparsed", "checked"} =>
        /\ again.some
        /\ calculate_output_cplx(again.v) <= calculate_output_cplx(internal)

C4_Witness ==
    /\ phase = "reparsed"
    /\ internal = Object(<< <<(<<Quote>>), Null>>, <<(<<>>), Bool(TRUE)>> >>)
    /\ again = Some(Object(<< <<(<<>>), Bool(TRUE)>> >>))
    /\ calculate_output_cplx(again.v) < calculate_output_cplx(internal)

\* What a float's text says of it (a text without an exponent).
FloatNegative(txt) == Head(txt) = "-"
FloatWhole(txt) ==
    LET digs == IF FloatNegative(txt) THEN Tail(txt) ELSE txt
    IN  SubSeq(digs, 1, SkipDigits(digs, 1) - 1)
FloatFraction(txt) ==
    LET dot == CHOOSE i \in DOMAIN txt : txt[i] = "."
    IN  SubSeq(txt, dot + 1, Len(txt))
FloatHasFraction(txt) == \E i \in DOMAIN FloatFraction(txt) : FloatFraction(txt)[i] # "0"
FloatPastU64(txt) == ~FloatNegative(txt) /\ DigitsValue(FloatWhole(txt), 0, U64Max) > U64Max

\* A Number that is negative, not an integer, or past the u64 range.
OutOfDomain(n) ==
    CASE n.k = "PosInt" -> n.v > U64Max
      [] n.k = "NegInt" -> TRUE
      [] n.k = "Float" ->
            FloatNegative(n.text) \/ FloatHasFraction(n.text) \/ FloatPastU64(n.text)

\* The Number nodes of a Value, at every depth.
RECURSIVE Numbers(_)
Numbers(v) ==
    CASE v.t = "Number" -> {v.inner}
      [] v.t = "Array" -> UNION {Numbers(v.inner[i]) : i \in DOMAIN v.inner}
      [] v.t = "Object" -> UNION {Numbers(v.inner[i][2]) : i \in DOMAIN v.inner}
      [] OTHER -> {}

\* The InternalJsonValue iv has the shape and the leaves of the Value v.
RECURSIVE SameShape(_, _)
SameShape(v, iv) ==
    /\ iv.t = v.t
    /\ CASE v.t = "Null" -> TRUE
         [] v.t \in {"Bool", "String"} -> iv.inner = v.inner
         [] v.t = "Number" -> v.inner.k = "PosInt" /\ iv.inner = v.inner.v
         [] v.t = "Array" ->
                /\ Len(iv.inner) = Len(v.inner)
                /\ \A i \in DOMAIN v.inner : SameShape(v.inner[i], iv.inner[i])
         [] v.t = "Object" ->
                /\ Len(iv.inner) = Len(v.inner)
                /\ \A i \in DOMAIN v.inner :
                        /\ iv.inner[i][1] = v.inner[i][1]
                        /\ SameShape(v.inner[i][2], iv.inner[i][2])

\* C5 as stated: map_serde_json_to_internal gives None exactly when some
\* Number node is negative, not an integer, or past the u64 range, and
\* otherwise Some of a tree of the same shape.
C5_Original ==
    phase = "forward" =>
        /\ ~internal.some <=> \E n \in Numbers(value) : OutOfDomain(n)
        /\ internal.some => SameShape(value, internal.v)

NotAU64(n) == n.k # "PosInt"

\* C5: map_serde_json_to_internal gives None exactly when some Number node,
\* at any depth, is not held as an unsigned integer: it is negative, or it is
\* a float, be that a fraction, a number past the u64 range, or a whole
\* number such as 1.0; otherwise it gives Some of a tree of the same shape.
C5_NoneIffNotU64 ==
    phase = "forward" =>
        /\ ~internal.some <=> \E n \in Numbers(value) : NotAU64(n)
        /\ internal.some => SameShape(value, internal.v)

C5_Witness ==
    /\ phase = "forward"
    /\ value = Array(<<Object(<< <<(<<>>), Number(NegInt(-1))>> >>)>>)
    /\ internal = None

\* The characters of a text that take two bytes.
TwoByteChars == {"é"}
Bytes(s) == Len(s) + Cardinality({i \in DOMAIN s : s[i] \in TwoByteChars})

\* The cost as C6 states it: a String costs 1 plus its characters, an object
\* 1 plus, for each entry, the key's length and the value's cost.
RECURSIVE StatedCost(_)
RECURSIVE StatedSum(_, _)
StatedSum(seq, keyed) ==
    IF seq = <<>> THEN 0
    ELSE (IF keyed THEN Len(Head(seq)[1]) + StatedCost(Head(seq)[2])
          ELSE StatedCost(Head(seq)))
         + StatedSum(Tail(seq), keyed)
StatedCost(v) ==
    CASE v.t \in {"Null", "Bool"} -> 1
      [] v.t = "Number" -> 1 + 8
      [] v.t = "String" -> 1 + Len(v.inner)
      [] v.t = "Array" -> 1 + StatedSum(v.inner, FALSE)
      [] v.t = "Object" -> 1 + StatedSum(v.inner, TRUE)

\* C6 as stated.
C6_Original == phase = "input" => cplx = StatedCost(value)

\* The cost with text counted in bytes and one more for each entry.
RECURSIVE ByteCost(_)
RECURSIVE ByteSum(_, _)
ByteSum(seq, keyed) ==
    IF seq = <<>> THEN 0
    ELSE (IF keyed THEN 1 + Bytes(Head(seq)[1]) + ByteCost(Head(seq)[2])
          ELSE ByteCost(Head(seq)))
         + ByteSum(Tail(seq), keyed)
ByteCost(v) ==
    CASE v.t \in {"Null", "Bool"} -> 1
      [] v.t = "Number" -> 1 + 8
      [] v.t = "String" -> 1 + Bytes(v.inner)
      [] v.t = "Array" -> 1 + ByteSum(v.inner, FALSE)
      [] v.t = "Object" -> 1 + ByteSum(v.inner, TRUE)

\* C6: calculate_output_cplx gives 1 for Null and Bool, 1 + 8 for a Number,
\* 1 plus the length in UTF-8 bytes for a String, 1 plus the children's costs
\* for an array, and for an object 1 plus, for each entry, 1 and the key's
\* length in bytes and the value's cost.
C6_CostByVariant == phase = "input" => cplx = ByteCost(value)

C6_Witness ==
    /\ phase = "input"
    /\ value = Object(<< <<(<<"é">>), Null>> >>)
    /\ cplx = 5

\* C7: a Value grown by one element, one entry (be its key empty), or one
\* character of a string or of a key, anywhere in it, costs strictly more.
C7_InsertionCostsMore ==
    [][(phase = "input" /\ phase' = "input" /\ value' # value) => cplx' > cplx]_vars

C7_Witness ==
    /\ phase = "input"
    /\ value = Array(<<Object(<< <<(<<>>), Null>> >>), Null>>)
    /\ cplx = 5

\* C1: every string generation derives from json_grammar_mutator's grammar is
\* accepted by the JSON parser: one JSON value and nothing else, so no
\* number with a leading zero, no comma before "]" or "}", every key a quoted
\* string followed by ":", no string with an unescaped quote or backslash.
C1_DerivedIsJson == gpc = "checked" => accepted

C1_Witness ==
    /\ gpc = "checked"
    /\ out = <<"[", "{", Quote, Quote, ":", "1", "}", "]">>
    /\ accepted

NullText == <<"n", "u", "l", "l">>

\* C9 as stated: generation with budget 0 gives a minimal derivation, and the
\* minimal derivations include null and the one-digit number 0.
C9_Original ==
    (gpc = "done" /\ start = 0) =>
        /\ out \in MinimalDerivations
        /\ NullText \in MinimalDerivations
        /\ <<"0">> \in MinimalDerivations

\* C9: generation with budget 0 gives a minimal derivation, and the minimal
\* derivations include null and the one-digit numbers 1 to 9, but not 0:
\* no number of the grammar starts with 0.
C9_MinimalDerivations ==
    (gpc = "done" /\ start = 0) =>
        /\ out \in MinimalDerivations
        /\ NullText \in MinimalDerivations
        /\ \A k \in 2..10 : <<DigitChars[k]>> \in MinimalDerivations
        /\ \A d \in MinimalDerivations : Head(d) # "0"

C9_Witness == gpc = "done" /\ start = 0 /\ out = <<"1">>

\* C10: the recursive rule has alternatives that do not recurse, so
\* generation, which spends budget on every recurse and takes such an
\* alternative once the budget is spent, ends with a finite derivation
\* whatever the starting budget and the choices, though the repetitions of
\* array and object have no upper bound.
C10_GenerationTerminates ==
    /\ \E i \in DOMAIN json_grammar.kids : ~HasRecurse(json_grammar.kids[i])
    /\ <>(gpc = "done")

C10_Witness ==
    /\ gpc = "done"
    /\ start = MaxFairBudget
    /\ budget = 0
    /\ out = <<"[", "1", ",", "1", "]">>

\* The parts of a number text: the digits before the ".", the digits after
\* it, the digits of the exponent, and what those leave over.
NumberParts(s) ==
    LET i1 == SkipDigits(s, 1)
        hasFrac == At(s, i1) = "."
        i2 == IF hasFrac THEN SkipDigits(s, i1 + 1) ELSE i1
        hasExp == At(s, i2) \in {"e", "E"}
        i3 == IF hasExp /\ At(s, i2 + 1) \in {"+", "-"} THEN i2 + 2 ELSE i2 + 1
        i4 == IF hasExp THEN SkipDigits(s, i3) ELSE i2
    IN  [whole |-> SubSeq(s, 1, i1 - 1),
         hasFraction |-> hasFrac,
         fraction |-> SubSeq(s, i1 + 1, i2 - 1),
         hasExponent |-> hasExp,
         exponent |-> SubSeq(s, i3, i4 - 1),
         rest |-> SubSeq(s, i4, Len(s))]

StartsWith1to9(ds) == ds # <<>> /\ IsDigit(Head(ds)) /\ Head(ds) # "0"

\* The set C8 states: a digit 1-9 and up to 32 more digits, then if any a
\* "." and digits, then if any "e" or "E", a sign if any, and one or two
\* digits.
StatedNumber(s) ==
    LET p == NumberParts(s)
    IN  /\ StartsWith1to9(p.whole) /\ Len(p.whole) <= 33
        /\ p.hasFraction => Len(p.fraction) >= 1
        /\ p.hasExponent => Len(p.exponent) \in 1..2
        /\ p.rest = <<>>

\* C8 as stated.
C8_Original == matched # "none" => (matched = "yes" <=> StatedNumber(cand))

\* C8: number() derives exactly: a digit 1-9 and up to 32 more digits; then
\* if any a "." followed by a digit 1-9 and up to 32 more digits; then if
\* any "e" or "E", a sign if any, and a digit 1-9 followed by at most one
\* more digit.
C8_NumberLanguage ==
    matched # "none" =>
        (matched = "yes" <=>
            LET p == NumberParts(cand)
            IN  /\ StartsWith1to9(p.whole) /\ Len(p.whole) <= 33
                /\ p.hasFraction => StartsWith1to9(p.fraction) /\ Len(p.fraction) <= 33
                /\ p.hasExponent => StartsWith1to9(p.exponent) /\ Len(p.exponent) <= 2
                /\ p.rest = <<>>)

C8_Witness ==
    /\ matched = "yes"
    /\ Len(cand) = 33 + 2 + 4
    /\ Len(NumberParts(cand).whole) = 33
    /\ NumberParts(cand).fraction = <<"1">>
    /\ NumberParts(cand).exponent = <<"1", "0">>

=============================================================================
